---- MODULE Spec2Model ----
(***************************************************************************)
(* Model of BacktestingModel.run (src/backtest.py): the per-pair trade     *)
(* simulation loop, its ledger and its spread history.                     *)
(*                                                                         *)
(* Numbers.  Python floats are modelled as exact rationals <<n, d>> with   *)
(* d > 0 in lowest terms; <<0, 0>> is NaN (every ordered comparison with   *)
(* it is false) and <<0, -1>> is Python's None.  Rounding is not modelled. *)
(* Dates.  dates[i] is the ordinal i, Python lists are indexed from 0 and  *)
(* read with At.                                                           *)
(* Z-scores.  self.zscores is taken as an arbitrary series over ZVals, a     *)
(* superset of what the rolling computation of get_zscores can yield.      *)
(* start_price (line 104) is never read and is left out.                   *)
(* Division.  hedge_ratio and the prices are Python floats, so a division  *)
(* by a zero spread raises ZeroDivisionError out of run().                 *)
(***************************************************************************)
EXTENDS Integers, Sequences, FiniteSets, TLC

VARIABLES coint_pairs, data, init_cap, std, zscores,
          pc, k, i,
          trade_date, pnl_val, cap_val, all_spread,
          start_spread, start_pos, start_num_spread, start_cap, start_date,
          trade_dates, pnl_vals, cap_vals, all_spreads,
          result,
          pnl_pcts, win_pcts, tot_trades, max_wins, max_losses, sharpe_ratios,
          metrics,
          runs, first_result

inputs == <<coint_pairs, data, init_cap, std, zscores>>
locals == <<trade_date, pnl_val, cap_val, all_spread,
            start_spread, start_pos, start_num_spread, start_cap, start_date>>
dicts  == <<trade_dates, pnl_vals, cap_vals, all_spreads>>
\* the six dictionaries of compute_bt_metrics and what it returns
mdicts == <<pnl_pcts, win_pcts, tot_trades, max_wins, max_losses, sharpe_ratios>>
\* the caller: the number of calls of run() made and what the first returned
caller == <<runs, first_result>>
other  == <<mdicts, metrics, caller>>
vars   == <<inputs, pc, k, i, locals, dicts, result, other>>

----------------------------------------------------------------------------
(* Bounds and input alphabets *)

MaxN == 4

NaN == <<0, 0>>
None == <<0, -1>>
NoneDate == -1

R(n) == <<n, 1>>

ZVals == {NaN, R(-3), R(0), R(3)}
\* <<independent price, dependent price>> of one date: spreads 0, -1, -3
PricePairs == {<<R(1), R(1)>>, <<R(3), R(2)>>, <<R(4), R(1)>>}
HedgeVals == {R(1)}
InitCapVals == {R(4)}
StdVals == {R(2)}
PairKeys == {<<"A", "B">>}

----------------------------------------------------------------------------
(* Float arithmetic as exact rationals *)

AbsI(n) == IF n < 0 THEN -n ELSE n

RECURSIVE GCD(_, _)
GCD(a, b) == IF b = 0 THEN a ELSE GCD(b, a % b)

Norm(n, d) ==
    LET s == IF d < 0 THEN -1 ELSE 1
        g == GCD(AbsI(n), AbsI(d))
    IN  <<(s * n) \div g, (s * d) \div g>>

IsNaN(x) == x[2] = 0

Add(x, y) == IF IsNaN(x) \/ IsNaN(y) THEN NaN
             ELSE Norm(x[1] * y[2] + y[1] * x[2], x[2] * y[2])
Neg(x) == IF IsNaN(x) THEN NaN ELSE <<-x[1], x[2]>>
Sub(x, y) == Add(x, Neg(y))
Mul(x, y) == IF IsNaN(x) \/ IsNaN(y) THEN NaN
             ELSE Norm(x[1] * y[1], x[2] * y[2])
\* x / y for y # 0; the callers raise ZeroDivisionError before dividing by 0
Div(x, y) == IF IsNaN(x) \/ IsNaN(y) THEN NaN
             ELSE Norm(x[1] * y[2], x[2] * y[1])
Abs(x) == IF IsNaN(x) THEN NaN ELSE <<AbsI(x[1]), x[2]>>
Lt(x, y) == ~IsNaN(x) /\ ~IsNaN(y) /\ x[1] * y[2] < y[1] * x[2]
Gt(x, y) == Lt(y, x)
Le(x, y) == ~IsNaN(x) /\ ~IsNaN(y) /\ x[1] * y[2] <= y[1] * x[2]

Zero == R(0)
\* the literal 0.5 of the take-profit test
Half == <<1, 2>>

RECURSIVE SumSeq(_)
SumSeq(s) == IF s = <<>> THEN Zero ELSE Add(SumSeq(SubSeq(s, 1, Len(s) - 1)), s[Len(s)])

At(s, j) == s[j + 1]
Last(s) == s[Len(s)]

----------------------------------------------------------------------------
(* Pure methods *)

get_spread(indep_p, dep_p, hedge) == Sub(dep_p, Mul(indep_p, hedge))

\* get_pnl that ignores the side of the position
get_pnl_LongOnly(pos, s_spread, e_spread, num_spread) ==
    Mul(Sub(e_spread, s_spread), num_spread)

get_pnl(pos, s_spread, e_spread, num_spread) ==
    IF pos = 1 THEN Mul(Sub(e_spread, s_spread), num_spread)
    ELSE Mul(Sub(s_spread, e_spread), num_spread)

----------------------------------------------------------------------------
(* Locals of the pair loop that are bound once per pair *)

dates == data.dates
key_pair == coint_pairs[k][1]
hedge_ratio == coint_pairs[k][2]
indep_price == data.price[key_pair[1]]
dep_price == data.price[key_pair[2]]
zscore == zscores[key_pair]

spread_at(j) == get_spread(At(indep_price, j), At(dep_price, j), hedge_ratio)

EmptyDict == [x \in {} |-> <<>>]

\* before compute_bt_metrics has run, and with run() called once
InitOther ==
    /\ pnl_pcts = EmptyDict /\ win_pcts = EmptyDict /\ tot_trades = EmptyDict
    /\ max_wins = EmptyDict /\ max_losses = EmptyDict /\ sharpe_ratios = EmptyDict
    /\ metrics = EmptyDict
    /\ runs = 1
    /\ first_result = EmptyDict

----------------------------------------------------------------------------
(* State after initialise_model *)

Init ==
    /\ \E n \in 0..MaxN :
         /\ \E pp \in [1..n -> PricePairs] :
              data = [dates |-> [j \in 1..n |-> j - 1],
                      price |-> [t \in {"A", "B"} |->
                                    [j \in 1..n |-> IF t = "A" THEN pp[j][1] ELSE pp[j][2]]]]
         /\ zscores \in [PairKeys -> [1..n -> ZVals]]
    /\ \E h \in HedgeVals : coint_pairs = <<<< <<"A", "B">>, h >>>>
    /\ init_cap \in InitCapVals
    /\ std \in StdVals
    /\ pc = "pair"
    /\ k = 1
    /\ i = 0
    /\ trade_date = <<>> /\ pnl_val = <<>> /\ cap_val = <<>> /\ all_spread = <<>>
    /\ start_spread = None /\ start_pos = 0 /\ start_num_spread = None
    /\ start_cap = None /\ start_date = NoneDate
    /\ trade_dates = EmptyDict /\ pnl_vals = EmptyDict
    /\ cap_vals = EmptyDict /\ all_spreads = EmptyDict
    /\ result = EmptyDict
    /\ InitOther

----------------------------------------------------------------------------
(* run(): the loop over pairs *)

\* PairBegin with cap_val starting empty
PairBegin_EmptyCap ==
    /\ pc = "pair"
    /\ k <= Len(coint_pairs)
    /\ trade_date' = <<>> /\ pnl_val' = <<>> /\ cap_val' = <<>>
    /\ all_spread' = <<>>
    /\ start_spread' = None /\ start_pos' = 0 /\ start_num_spread' = None
    /\ start_cap' = init_cap /\ start_date' = NoneDate
    /\ i' = 0
    /\ pc' = "loop"
    /\ UNCHANGED <<inputs, other, k, dicts, result>>

\* PairBegin with start_cap kept from the pair simulated before
PairBegin_CarriesCapital ==
    /\ pc = "pair"
    /\ k <= Len(coint_pairs)
    /\ trade_date' = <<>> /\ pnl_val' = <<>> /\ cap_val' = <<init_cap>>
    /\ all_spread' = <<>>
    /\ start_spread' = None /\ start_pos' = 0 /\ start_num_spread' = None
    /\ start_cap' = (IF start_cap = None THEN init_cap ELSE start_cap)
    /\ start_date' = NoneDate
    /\ i' = 0
    /\ pc' = "loop"
    /\ UNCHANGED <<inputs, other, k, dicts, result>>

\* lines 97-104: next pair, reset of the per-pair state
PairBegin ==
    /\ pc = "pair"
    /\ k <= Len(coint_pairs)
    /\ trade_date' = <<>> /\ pnl_val' = <<>> /\ cap_val' = <<init_cap>>
    /\ all_spread' = <<>>
    /\ start_spread' = None /\ start_pos' = 0 /\ start_num_spread' = None
    /\ start_cap' = init_cap /\ start_date' = NoneDate
    /\ i' = 0
    /\ pc' = "loop"
    /\ UNCHANGED <<inputs, other, k, dicts, result>>

InBody == pc = "loop" /\ i < Len(zscore)

\* the halt test left out
CondHalt_Never == FALSE

\* the halt test written as start_cap < 0
CondHalt_Strict == Lt(start_cap, Zero)

\* line 108: start_cap <= 0
CondHalt == Le(start_cap, Zero)

\* past the halt test, with indep_price[i] and dep_price[i] in range
InStep ==
    /\ InBody /\ ~CondHalt
    /\ i < Len(indep_price) /\ i < Len(dep_price)

\* lines 108-109: break
Halt ==
    /\ InBody
    /\ CondHalt
    /\ pc' = "pair_end"
    /\ UNCHANGED <<inputs, other, k, i, locals, dicts, result>>

\* line 106: range(len(zscore)) is exhausted
LoopEnd ==
    /\ pc = "loop"
    /\ i = Len(zscore)
    /\ pc' = "pair_end"
    /\ UNCHANGED <<inputs, other, k, i, locals, dicts, result>>

IsLast == i = Len(zscore) - 1
z == At(zscore, i)

\* the last-day test written as i == len(zscore)
CondForced_OffByOne == i = Len(zscore) /\ start_pos # 0

\* the take-profit test without its abs(zscore[i]) < 0.5 clause
CondRevert_NoBand ==
    \/ (start_pos = 1 /\ Gt(z, Zero))
    \/ (start_pos = -1 /\ Lt(z, Zero))

\* the take-profit band written as not (abs(zscore[i]) >= 0.5)
CondRevert_NotGe ==
    \/ (start_pos # 0 /\ ~Le(Half, Abs(z)))
    \/ (start_pos = 1 /\ Gt(z, Zero))
    \/ (start_pos = -1 /\ Lt(z, Zero))

CondForced == IsLast /\ start_pos # 0
\* the long entry test with the sign of the threshold lost
CondLong_NoSign == start_pos = 0 /\ Lt(z, std)

CondLong == start_pos = 0 /\ Lt(z, Neg(std))
CondShort == start_pos = 0 /\ Gt(z, std)
CondRevert ==
    \/ (start_pos # 0 /\ Lt(Abs(z), Half))
    \/ (start_pos = 1 /\ Gt(z, Zero))
    \/ (start_pos = -1 /\ Lt(z, Zero))

\* Close with the pnl_val.append dropped
Close_NoPnlAppend ==
    LET end_spread == spread_at(i)
        pnl == get_pnl(start_pos, start_spread, end_spread, start_num_spread)
    IN  /\ start_cap' = Add(start_cap, pnl)
        /\ trade_date' = Append(trade_date, <<start_date, At(dates, i)>>)
        /\ pnl_val' = pnl_val
        /\ cap_val' = Append(cap_val, Add(start_cap, pnl))
        /\ start_pos' = 0
        /\ UNCHANGED <<start_spread, start_num_spread, start_date>>

\* Close with cap_val.append(pnl) in place of cap_val.append(start_cap)
Close_CapAppendsPnl ==
    LET end_spread == spread_at(i)
        pnl == get_pnl(start_pos, start_spread, end_spread, start_num_spread)
    IN  /\ start_cap' = Add(start_cap, pnl)
        /\ trade_date' = Append(trade_date, <<start_date, At(dates, i)>>)
        /\ pnl_val' = Append(pnl_val, pnl)
        /\ cap_val' = Append(cap_val, pnl)
        /\ start_pos' = 0
        /\ UNCHANGED <<start_spread, start_num_spread, start_date>>

\* Close without the reset of start_pos
Close_KeepsPos ==
    LET end_spread == spread_at(i)
        pnl == get_pnl(start_pos, start_spread, end_spread, start_num_spread)
    IN  /\ start_cap' = Add(start_cap, pnl)
        /\ trade_date' = Append(trade_date, <<start_date, At(dates, i)>>)
        /\ pnl_val' = Append(pnl_val, pnl)
        /\ cap_val' = Append(cap_val, Add(start_cap, pnl))
        /\ UNCHANGED <<start_pos, start_spread, start_num_spread, start_date>>

\* lines 112-118 and 133-139: the body shared by the two closing branches
Close ==
    LET end_spread == spread_at(i)
        pnl == get_pnl(start_pos, start_spread, end_spread, start_num_spread)
    IN  /\ i < Len(dates)
        /\ start_cap' = Add(start_cap, pnl)
        /\ trade_date' = Append(trade_date, <<start_date, At(dates, i)>>)
        /\ pnl_val' = Append(pnl_val, pnl)
        /\ cap_val' = Append(cap_val, Add(start_cap, pnl))
        /\ start_pos' = 0
        /\ UNCHANGED <<start_spread, start_num_spread, start_date>>

\* line 141 and the advance of the for loop
AppendSpread ==
    /\ all_spread' = Append(all_spread, spread_at(i))
    /\ i' = i + 1

\* lines 111-118, 141
ForcedClose ==
    /\ InStep
    /\ CondForced
    /\ Close
    /\ AppendSpread
    /\ UNCHANGED <<inputs, other, pc, k, dicts, result>>

\* Open that also records the capital in cap_val
Open_AppendsCap(pos) ==
    /\ start_spread' = spread_at(i)
    /\ start_pos' = pos
    /\ start_num_spread' = Div(start_cap, Abs(spread_at(i)))
    /\ start_date' = At(dates, i)
    /\ cap_val' = Append(cap_val, start_cap)
    /\ UNCHANGED <<start_cap, trade_date, pnl_val>>

\* lines 120-124 and 126-130: the body shared by the two opening branches
Open(pos) ==
    /\ i < Len(dates)
    /\ start_spread' = spread_at(i)
    /\ start_pos' = pos
    /\ start_num_spread' = Div(start_cap, Abs(spread_at(i)))
    /\ start_date' = At(dates, i)
    /\ UNCHANGED <<start_cap, trade_date, pnl_val, cap_val>>

\* lines 120-124, 141
OpenLong ==
    /\ InStep
    /\ ~CondForced /\ CondLong
    /\ spread_at(i) # Zero
    /\ Open(1)
    /\ AppendSpread
    /\ UNCHANGED <<inputs, other, pc, k, dicts, result>>

\* lines 126-130, 141
OpenShort ==
    /\ InStep
    /\ ~CondForced /\ ~CondLong /\ CondShort
    /\ spread_at(i) # Zero
    /\ Open(-1)
    /\ AppendSpread
    /\ UNCHANGED <<inputs, other, pc, k, dicts, result>>

\* lines 123 and 129: start_cap/abs(start_spread) with a zero spread raises
\* ZeroDivisionError; run() is unwound and returns nothing
DivisionFault ==
    /\ InStep
    /\ ~CondForced /\ (CondLong \/ CondShort)
    /\ spread_at(i) = Zero
    /\ pc' = "fault"
    /\ UNCHANGED <<inputs, other, k, i, locals, dicts, result>>

\* ReversionClose followed in the same step by the open tests (if for elif)
ReversionClose_ThenOpen ==
    /\ InStep
    /\ ~CondForced /\ ~CondLong /\ ~CondShort /\ CondRevert
    /\ LET end_spread == spread_at(i)
           pnl == get_pnl(start_pos, start_spread, end_spread, start_num_spread)
           reopen == (Lt(z, Neg(std)) \/ Gt(z, std)) /\ end_spread # Zero
       IN  /\ start_cap' = Add(start_cap, pnl)
           /\ trade_date' = Append(trade_date, <<start_date, At(dates, i)>>)
           /\ pnl_val' = Append(pnl_val, pnl)
           /\ cap_val' = Append(cap_val, Add(start_cap, pnl))
           /\ start_pos' = IF ~reopen THEN 0 ELSE IF Lt(z, Neg(std)) THEN 1 ELSE -1
           /\ start_spread' = IF reopen THEN end_spread ELSE start_spread
           /\ start_num_spread' = IF reopen THEN Div(Add(start_cap, pnl), Abs(end_spread))
                                   ELSE start_num_spread
           /\ start_date' = IF reopen THEN At(dates, i) ELSE start_date
    /\ AppendSpread
    /\ UNCHANGED <<inputs, other, pc, k, dicts, result>>

\* lines 132-139, 141
ReversionClose ==
    /\ InStep
    /\ ~CondForced /\ ~CondLong /\ ~CondShort /\ CondRevert
    /\ Close
    /\ AppendSpread
    /\ UNCHANGED <<inputs, other, pc, k, dicts, result>>

\* NoAction with the append of line 141 left inside the last elif
NoAction_NoAppend ==
    /\ InStep
    /\ ~CondForced /\ ~CondLong /\ ~CondShort /\ ~CondRevert
    /\ i' = i + 1
    /\ UNCHANGED <<inputs, other, pc, k, dicts, result, locals>>

\* no branch taken, line 141
NoAction ==
    /\ InStep
    /\ ~CondForced /\ ~CondLong /\ ~CondShort /\ ~CondRevert
    /\ AppendSpread
    /\ UNCHANGED <<inputs, other, pc, k, dicts, result>>
    /\ UNCHANGED <<trade_date, pnl_val, cap_val, start_spread, start_pos,
                   start_num_spread, start_cap, start_date>>

\* lines 143-146
PairEnd ==
    /\ pc = "pair_end"
    /\ trade_dates' = (key_pair :> trade_date) @@ trade_dates
    /\ pnl_vals' = (key_pair :> pnl_val) @@ pnl_vals
    /\ cap_vals' = (key_pair :> cap_val) @@ cap_vals
    /\ all_spreads' = (key_pair :> all_spread) @@ all_spreads
    /\ k' = k + 1
    /\ pc' = "pair"
    /\ UNCHANGED <<inputs, other, i, locals, result>>

\* lines 148-158
Return ==
    /\ pc = "pair"
    /\ k > Len(coint_pairs)
    /\ result' = [trade_dates |-> trade_dates, pnl_vals |-> pnl_vals,
                  cap_vals |-> cap_vals, all_spreads |-> all_spreads]
    /\ pc' = "done"
    /\ UNCHANGED <<inputs, other, k, i, locals, dicts>>

Next ==
    \/ PairBegin
    \/ Halt
    \/ LoopEnd
    \/ ForcedClose
    \/ OpenLong
    \/ OpenShort
    \/ DivisionFault
    \/ ReversionClose
    \/ NoAction
    \/ PairEnd
    \/ Return

Spec == Init /\ [][Next]_vars

----------------------------------------------------------------------------
(* Two pairs over the same two tickers, and run() called more than once on *)
(* the same model.  The pair (B, A) has hedge ratio 2, so its spread is    *)
(* never 0 on PricePairs, while the spread of (A, B) can be.               *)

MaxN2 == 3
MaxRuns == 2

ZVals2 == {R(-3), R(3)}
PairOrders == { << << <<"A", "B">>, R(1) >>, << <<"B", "A">>, R(2) >> >>,
                << << <<"B", "A">>, R(2) >>, << <<"A", "B">>, R(1) >> >> }

InitTwoPairs ==
    /\ \E n \in 0..MaxN2 :
         /\ \E pp \in [1..n -> PricePairs] :
              data = [dates |-> [j \in 1..n |-> j - 1],
                      price |-> [t \in {"A", "B"} |->
                                    [j \in 1..n |-> IF t = "A" THEN pp[j][1] ELSE pp[j][2]]]]
         /\ zscores \in [{<<"A", "B">>, <<"B", "A">>} -> [1..n -> ZVals2]]
    /\ coint_pairs \in PairOrders
    /\ init_cap \in InitCapVals
    /\ std \in StdVals
    /\ pc = "pair"
    /\ k = 1
    /\ i = 0
    /\ trade_date = <<>> /\ pnl_val = <<>> /\ cap_val = <<>> /\ all_spread = <<>>
    /\ start_spread = None /\ start_pos = 0 /\ start_num_spread = None
    /\ start_cap = None /\ start_date = NoneDate
    /\ trade_dates = EmptyDict /\ pnl_vals = EmptyDict
    /\ cap_vals = EmptyDict /\ all_spreads = EmptyDict
    /\ result = EmptyDict
    /\ InitOther

\* the caller keeps what run() returned and calls run() again: lines 94-95
RunAgain ==
    /\ pc = "done"
    /\ runs < MaxRuns
    /\ runs' = runs + 1
    /\ first_result' = (IF runs = 1 THEN result ELSE first_result)
    /\ trade_dates' = EmptyDict /\ pnl_vals' = EmptyDict
    /\ cap_vals' = EmptyDict /\ all_spreads' = EmptyDict
    /\ k' = 1
    /\ pc' = "pair"
    /\ UNCHANGED <<inputs, i, locals, result, mdicts, metrics>>

NextTwoPairs ==
    \/ PairBegin
    \/ Halt
    \/ LoopEnd
    \/ ForcedClose
    \/ OpenLong
    \/ OpenShort
    \/ DivisionFault
    \/ ReversionClose
    \/ NoAction
    \/ PairEnd
    \/ Return
    \/ RunAgain

SpecTwoPairs == InitTwoPairs /\ [][NextTwoPairs]_vars

----------------------------------------------------------------------------
(* Inputs that break the preconditions: price, z-score and date series of  *)
(* independent lengths and an initial capital that may be 0.  A read past  *)
(* the end of a list raises IndexError out of run().                       *)

MaxLen == 3

PreInitCapVals == {R(0), R(4)}

InitPre ==
    /\ \E nz \in 0..MaxLen, np \in 0..MaxLen, nd \in 0..MaxLen :
         /\ \E pp \in [1..np -> PricePairs] :
              data = [dates |-> [j \in 1..nd |-> j - 1],
                      price |-> [t \in {"A", "B"} |->
                                    [j \in 1..np |-> IF t = "A" THEN pp[j][1] ELSE pp[j][2]]]]
         /\ zscores \in [PairKeys -> [1..nz -> ZVals2]]
    /\ \E h \in HedgeVals : coint_pairs = <<<< <<"A", "B">>, h >>>>
    /\ init_cap \in PreInitCapVals
    /\ std \in StdVals
    /\ pc = "pair"
    /\ k = 1
    /\ i = 0
    /\ trade_date = <<>> /\ pnl_val = <<>> /\ cap_val = <<>> /\ all_spread = <<>>
    /\ start_spread = None /\ start_pos = 0 /\ start_num_spread = None
    /\ start_cap = None /\ start_date = NoneDate
    /\ trade_dates = EmptyDict /\ pnl_vals = EmptyDict
    /\ cap_vals = EmptyDict /\ all_spreads = EmptyDict
    /\ result = EmptyDict
    /\ InitOther

\* lines 112, 121, 127, 133, 141: indep_price[i] or dep_price[i] past the
\* end; lines 115, 124, 130, 136: dates[i] past the end in a branch that
\* reads it (after the ZeroDivisionError of lines 123/129, if any)
IndexFault ==
    /\ InBody /\ ~CondHalt
    /\ \/ ~(i < Len(indep_price) /\ i < Len(dep_price))
       \/ /\ i < Len(indep_price) /\ i < Len(dep_price)
          /\ ~(i < Len(dates))
          /\ \/ CondForced
             \/ CondRevert
             \/ ((CondLong \/ CondShort) /\ spread_at(i) # Zero)
    /\ pc' = "fault"
    /\ UNCHANGED <<inputs, other, k, i, locals, dicts, result>>

NextPre ==
    \/ PairBegin
    \/ Halt
    \/ LoopEnd
    \/ ForcedClose
    \/ OpenLong
    \/ OpenShort
    \/ DivisionFault
    \/ ReversionClose
    \/ NoAction
    \/ PairEnd
    \/ Return
    \/ IndexFault

SpecPre == InitPre /\ [][NextPre]_vars

----------------------------------------------------------------------------
(* compute_bt_metrics(): the loop over pairs, lines 160-211.  The Sharpe   *)
(* ratio mean/stdev is kept as the pair <<mean, variance>>, so that its    *)
(* comparison with 0.5 needs no square root.                               *)

\* lines 173-179: the statistics of the current pair (m_pnl is the local pnl)
m_pnl == result.pnl_vals[key_pair]
num_days == Len(data.dates)
pnl_pct == Div(Sub(Last(result.cap_vals[key_pair]), init_cap), init_cap)
win_trade == Cardinality({t \in 1..Len(m_pnl) : Gt(m_pnl[t], Zero)})
lose_trade == Cardinality({t \in 1..Len(m_pnl) : Le(m_pnl[t], Zero)})
tot_trade == win_trade + lose_trade
win_pct == Div(R(win_trade), R(tot_trade))

\* the literal 0.3 of line 181
ThreeTenths == <<3, 10>>

\* line 181 with coint_res[0] < 0
ScreenedOut_HedgeStrict ==
    \/ Lt(pnl_pct, ThreeTenths)
    \/ tot_trade <= num_days \div 100
    \/ Lt(win_pct, ThreeTenths)
    \/ Lt(hedge_ratio, Zero)

\* line 181
ScreenedOut ==
    \/ Lt(pnl_pct, ThreeTenths)
    \/ tot_trade <= num_days \div 100
    \/ Lt(win_pct, ThreeTenths)
    \/ Le(hedge_ratio, Zero)

\* line 184: pd.Series(cap_vals).pct_change()[1:]
pct_change(cap) == [j \in 1..(Len(cap) - 1) |-> Sub(Div(cap[j + 1], cap[j]), R(1))]
pnl_pct_lst == pct_change(result.cap_vals[key_pair])

\* statistics.mean and the square of statistics.stdev (sample variance)
mean(xs) == Div(SumSeq(xs), R(Len(xs)))
variance(xs) ==
    LET m == mean(xs)
        sq == [j \in 1..Len(xs) |-> Mul(Sub(xs[j], m), Sub(xs[j], m))]
    IN  Div(SumSeq(sq), R(Len(xs) - 1))

\* line 185, as <<mean, variance>>
sharpe_ratio == <<mean(pnl_pct_lst), variance(pnl_pct_lst)>>

\* line 186: mean / sqrt(variance) > 0.5, for variance > 0
SharpeAboveHalf(sh) ==
    /\ Gt(sh[1], Zero)
    /\ Gt(Mul(sh[1], sh[1]), Mul(Mul(Half, Half), sh[2]))

MaxOf(S) == IF S = {} THEN Zero ELSE CHOOSE x \in S : \A y \in S : Le(y, x)
MinOf(S) == IF S = {} THEN Zero ELSE CHOOSE x \in S : \A y \in S : Le(x, y)
\* lines 187-188
max_win == MaxOf({m_pnl[t] : t \in {u \in 1..Len(m_pnl) : Gt(m_pnl[u], Zero)}})
max_loss == MinOf({m_pnl[t] : t \in {u \in 1..Len(m_pnl) : Le(m_pnl[u], Zero)}})

InMetricsBody == pc = "metrics" /\ k <= Len(coint_pairs)

\* line 179: win_trade / tot_trade with no trade raises ZeroDivisionError
MetricsZeroTrades ==
    /\ InMetricsBody
    /\ tot_trade = 0
    /\ pc' = "m_fault"
    /\ UNCHANGED <<inputs, k, i, locals, dicts, result, other>>

\* lines 181-182: continue
MetricsSkip ==
    /\ InMetricsBody
    /\ tot_trade # 0
    /\ ScreenedOut
    /\ k' = k + 1
    /\ UNCHANGED <<inputs, pc, i, locals, dicts, result, other>>

\* line 185: statistics.stdev of fewer than two values raises StatisticsError
MetricsTooFewReturns ==
    /\ InMetricsBody
    /\ tot_trade # 0
    /\ ~ScreenedOut
    /\ Len(pnl_pct_lst) < 2
    /\ pc' = "m_fault"
    /\ UNCHANGED <<inputs, k, i, locals, dicts, result, other>>

\* line 185: mean / stdev with stdev = 0 raises ZeroDivisionError
MetricsZeroStdev ==
    /\ InMetricsBody
    /\ tot_trade # 0
    /\ ~ScreenedOut
    /\ Len(pnl_pct_lst) >= 2
    /\ sharpe_ratio[2] = Zero
    /\ pc' = "m_fault"
    /\ UNCHANGED <<inputs, k, i, locals, dicts, result, other>>

\* lines 183-186 with sharpe_ratio <= 0.5: nothing is stored
MetricsDrop ==
    /\ InMetricsBody
    /\ tot_trade # 0
    /\ ~ScreenedOut
    /\ Len(pnl_pct_lst) >= 2
    /\ sharpe_ratio[2] # Zero
    /\ ~SharpeAboveHalf(sharpe_ratio)
    /\ k' = k + 1
    /\ UNCHANGED <<inputs, pc, i, locals, dicts, result, other>>

\* lines 183-195 with sharpe_ratio > 0.5
MetricsKeep ==
    /\ InMetricsBody
    /\ tot_trade # 0
    /\ ~ScreenedOut
    /\ Len(pnl_pct_lst) >= 2
    /\ sharpe_ratio[2] # Zero
    /\ SharpeAboveHalf(sharpe_ratio)
    /\ pnl_pcts' = (key_pair :> pnl_pct) @@ pnl_pcts
    /\ win_pcts' = (key_pair :> win_pct) @@ win_pcts
    /\ tot_trades' = (key_pair :> tot_trade) @@ tot_trades
    /\ max_wins' = (key_pair :> max_win) @@ max_wins
    /\ max_losses' = (key_pair :> max_loss) @@ max_losses
    /\ sharpe_ratios' = (key_pair :> sharpe_ratio) @@ sharpe_ratios
    /\ k' = k + 1
    /\ UNCHANGED <<inputs, pc, i, locals, dicts, result, metrics, caller>>

\* lines 197-211
MetricsReturn ==
    /\ pc = "metrics"
    /\ k > Len(coint_pairs)
    /\ metrics' = [pnl_pcts |-> pnl_pcts, win_pcts |-> win_pcts,
                   tot_trades |-> tot_trades, max_wins |-> max_wins,
                   max_losses |-> max_losses, sharpe_ratios |-> sharpe_ratios]
    /\ pc' = "m_done"
    /\ UNCHANGED <<inputs, k, i, locals, dicts, result, mdicts, caller>>

NextMetrics ==
    \/ MetricsZeroTrades
    \/ MetricsSkip
    \/ MetricsTooFewReturns
    \/ MetricsZeroStdev
    \/ MetricsDrop
    \/ MetricsKeep
    \/ MetricsReturn

(* The state at the call of compute_bt_metrics, line 169 done: the ledgers *)
(* self.pnl_vals and self.cap_vals as run() leaves them (cap_vals starts   *)
(* with init_cap and adds each pnl, at most one trade per two dates), drawn *)
(* from per-trade returns.  What compute_bt_metrics never reads (prices,   *)
(* z-scores, trade_dates, all_spreads, the locals of run) is left empty.   *)

MaxTrades == 4

RetVals == {<<-1, 2>>, R(0), ThreeTenths, R(2)}
MetricsHedgeVals == {R(0), R(1)}
NumDaysVals == {10, 100}
MetricsKeys == << <<"A", "B">>, <<"B", "A">> >>

RECURSIVE CapsOf(_, _)
CapsOf(c0, rs) ==
    IF rs = <<>> THEN <<c0>>
    ELSE LET prev == CapsOf(c0, SubSeq(rs, 1, Len(rs) - 1))
         IN  Append(prev, Mul(Last(prev), Add(R(1), Last(rs))))

PnlsOf(c0, rs) ==
    LET caps == CapsOf(c0, rs)
    IN  [t \in 1..Len(rs) |-> Sub(caps[t + 1], caps[t])]

InitMetrics ==
    /\ init_cap \in InitCapVals
    /\ std \in StdVals
    /\ \E np \in 1..2, nd \in NumDaysVals :
         \E hs \in [1..np -> MetricsHedgeVals], ls \in [1..np -> 0..MaxTrades] :
           /\ ls[1] + (IF np = 2 THEN ls[2] ELSE 0) <= MaxTrades
           /\ \E r1 \in [1..ls[1] -> RetVals],
                 r2 \in [1..(IF np = 2 THEN ls[2] ELSE 0) -> RetVals] :
                LET keys == {MetricsKeys[q] : q \in 1..np}
                    rets == [p \in keys |-> IF p = MetricsKeys[1] THEN r1 ELSE r2]
                IN  /\ coint_pairs = [q \in 1..np |-> <<MetricsKeys[q], hs[q]>>]
                    /\ data = [dates |-> [j \in 1..nd |-> j - 1],
                               price |-> [t \in {"A", "B"} |-> <<>>]]
                    /\ zscores = [p \in keys |-> <<>>]
                    /\ trade_dates = [p \in keys |->
                                        [t \in 1..Len(rets[p]) |-> <<2 * t - 2, 2 * t - 1>>]]
                    /\ pnl_vals = [p \in keys |-> PnlsOf(init_cap, rets[p])]
                    /\ cap_vals = [p \in keys |-> CapsOf(init_cap, rets[p])]
                    /\ all_spreads = [p \in keys |-> <<>>]
    /\ result = [trade_dates |-> trade_dates, pnl_vals |-> pnl_vals,
                 cap_vals |-> cap_vals, all_spreads |-> all_spreads]
    /\ pc = "metrics"
    /\ k = 1
    /\ i = 0
    /\ trade_date = <<>> /\ pnl_val = <<>> /\ cap_val = <<>> /\ all_spread = <<>>
    /\ start_spread = None /\ start_pos = 0 /\ start_num_spread = None
    /\ start_cap = None /\ start_date = NoneDate
    /\ InitOther

SpecMetrics == InitMetrics /\ [][NextMetrics]_vars

----------------------------------------------------------------------------
(* Properties *)

N == Len(dates)
InPair == pc \in {"loop", "pair_end"}
Done == pc = "done"

\* C1 (as stated): for every pair and after any sequence of steps the three
\* ledger sequences have equal length,
\* len(trade_dates) = len(pnl_vals) = len(cap_vals).
C1_LedgerParityAsStated ==
    /\ InPair => /\ Len(trade_date) = Len(pnl_val)
                 /\ Len(pnl_val) = Len(cap_val)
    /\ \A p \in DOMAIN cap_vals :
         /\ Len(trade_dates[p]) = Len(pnl_vals[p])
         /\ Len(pnl_vals[p]) = Len(cap_vals[p])

\* C1 (amended): trade_dates and pnl_vals have equal length and cap_vals,
\* which starts with init_cap, is exactly one element longer.
C1_LedgerParity ==
    /\ InPair => /\ Len(trade_date) = Len(pnl_val)
                 /\ Len(cap_val) = Len(pnl_val) + 1
                 /\ cap_val[1] = init_cap
    /\ \A p \in DOMAIN cap_vals :
         /\ Len(trade_dates[p]) = Len(pnl_vals[p])
         /\ Len(cap_vals[p]) = Len(pnl_vals[p]) + 1
         /\ cap_vals[p][1] = init_cap
    /\ Done => \A p \in DOMAIN result.cap_vals :
         /\ Len(result.trade_dates[p]) = Len(result.pnl_vals[p])
         /\ Len(result.cap_vals[p]) = Len(result.pnl_vals[p]) + 1

C1_Witness ==
    Done /\ \E p \in DOMAIN result.trade_dates : Len(result.trade_dates[p]) = 2

\* C2: at every step and at the end, the last value of cap_vals equals
\* init_cap plus the sum of pnl_vals (and is the running capital).
C2_CapitalAccounting ==
    /\ InPair => /\ Last(cap_val) = Add(init_cap, SumSeq(pnl_val))
                 /\ start_cap = Last(cap_val)
    /\ \A p \in DOMAIN cap_vals :
         Last(cap_vals[p]) = Add(init_cap, SumSeq(pnl_vals[p]))
    /\ Done => \A p \in DOMAIN result.cap_vals :
         Last(result.cap_vals[p]) = Add(init_cap, SumSeq(result.pnl_vals[p]))

C2_Witness ==
    Done /\ \E p \in DOMAIN result.pnl_vals :
        /\ Len(result.pnl_vals[p]) = 2
        /\ Lt(result.pnl_vals[p][1], Zero)
        /\ Gt(result.pnl_vals[p][2], Zero)

\* C3: once the running capital is <= 0 after a close at index x, no later
\* index is processed: the position state, the ledger and the spread history
\* stay as they are, and len(all_spreads) = x + 1, which is < N when x < N-1.
C3_HaltState ==
    /\ (InPair /\ Le(start_cap, Zero)) =>
          /\ Len(trade_date) >= 1
          /\ start_pos = 0
          /\ Len(all_spread) = Last(trade_date)[2] + 1
          /\ (Last(trade_date)[2] < N - 1 => Len(all_spread) < N)
    /\ \A p \in DOMAIN all_spreads :
          Le(Last(cap_vals[p]), Zero) =>
            /\ Len(all_spreads[p]) = Last(trade_dates[p])[2] + 1
            /\ (Last(trade_dates[p])[2] < N - 1 => Len(all_spreads[p]) < N)

C3_HaltStep ==
    (InPair /\ Le(start_cap, Zero)) => UNCHANGED <<i, locals>>

C3_Halt == []C3_HaltState /\ [][C3_HaltStep]_vars

C3_Witness ==
    Done /\ \E p \in DOMAIN result.all_spreads :
        /\ Le(Last(result.cap_vals[p]), Zero)
        /\ Len(result.all_spreads[p]) = 2
        /\ N = 4

\* C4: at the last index N-1 with capital > 0 and a position open, the step
\* closes the position at that date's spread whatever z[N-1] is, appends
\* exactly one trade with exit date dates[N-1], leaves the state Flat and
\* changes nothing of the entry data (no open and no second close).
C4_ForcedCloseStep ==
    (pc = "loop" /\ N >= 1 /\ i = N - 1 /\ start_pos # 0 /\ Gt(start_cap, Zero)) =>
        LET pnl == get_pnl(start_pos, start_spread, spread_at(N - 1), start_num_spread)
        IN  /\ start_pos' = 0
            /\ trade_date' = Append(trade_date, <<start_date, At(dates, N - 1)>>)
            /\ pnl_val' = Append(pnl_val, pnl)
            /\ cap_val' = Append(cap_val, Add(start_cap, pnl))
            /\ start_cap' = Add(start_cap, pnl)
            /\ all_spread' = Append(all_spread, spread_at(N - 1))
            /\ UNCHANGED <<start_spread, start_date, start_num_spread>>

C4_ForcedClose == [][C4_ForcedCloseStep]_vars

C4_Witness ==
    /\ Done
    /\ N >= 2
    /\ \E p \in DOMAIN result.trade_dates :
         /\ Len(result.trade_dates[p]) >= 1
         /\ Last(result.trade_dates[p])[2] = At(dates, N - 1)
         /\ IsNaN(At(zscores[p], N - 1))

\* the reversion condition of rule 5 for a position pos and a z-score zz
RevCond(pos, zz) ==
    \/ Lt(Abs(zz), Half)
    \/ (pos = 1 /\ Gt(zz, Zero))
    \/ (pos = -1 /\ Lt(zz, Zero))

\* the side of the trade entered at index e of pair p
SideAt(p, e) == IF Lt(At(zscores[p], e), Neg(std)) THEN 1 ELSE -1

\* C5: at a non-final index with a position open, the step closes it at
\* spread(i) and records a trade exactly when the reversion condition holds;
\* so no index strictly between a trade's entry and its exit, and none since
\* the entry of an open position, satisfies the reversion condition.
C5_RevertStep ==
    (pc = "loop" /\ i < N - 1 /\ start_pos # 0) =>
        LET pnl == get_pnl(start_pos, start_spread, spread_at(i), start_num_spread)
        IN  IF RevCond(start_pos, At(zscore, i))
            THEN /\ start_pos' = 0
                 /\ trade_date' = Append(trade_date, <<start_date, At(dates, i)>>)
                 /\ pnl_val' = Append(pnl_val, pnl)
                 /\ cap_val' = Append(cap_val, Add(start_cap, pnl))
            ELSE UNCHANGED <<start_pos, trade_date, pnl_val, cap_val, start_cap>>

C5_FirstReversion ==
    /\ (pc = "loop" /\ start_pos # 0) =>
          \A j \in (start_date + 1)..(i - 1) : ~RevCond(start_pos, At(zscore, j))
    /\ \A p \in DOMAIN trade_dates : \A t \in 1..Len(trade_dates[p]) :
          \A j \in (trade_dates[p][t][1] + 1)..(trade_dates[p][t][2] - 1) :
              ~RevCond(SideAt(p, trade_dates[p][t][1]), At(zscores[p], j))

C5_ReversionClose == []C5_FirstReversion /\ [][C5_RevertStep]_vars

C5_Witness ==
    Done /\ \E p \in DOMAIN result.trade_dates :
        /\ Len(result.trade_dates[p]) = 1
        /\ result.trade_dates[p][1] = <<0, 2>>
        /\ N = 4
        /\ At(zscores[p], 2) = Zero

\* C6: the position state is always one of Flat, Long, Short; a position is
\* opened only from Flat, as Long iff z[i] < -std and as Short iff
\* z[i] > std, with entry spread spread(i) and entry date dates[i]; while a
\* position is open a step can only keep it or close it, never open another.
C6_PositionState == start_pos \in {-1, 0, 1}

C6_EntryStep ==
    /\ (pc = "loop" /\ start_pos' # 0 /\ start_pos' # start_pos) =>
          /\ start_pos = 0
          /\ (start_pos' = 1) <=> Lt(At(zscore, i), Neg(std))
          /\ (start_pos' = -1) <=> Gt(At(zscore, i), std)
          /\ start_spread' = spread_at(i)
          /\ start_date' = At(dates, i)
    /\ (pc = "loop" /\ start_pos # 0) =>
          /\ start_pos' \in {start_pos, 0}
          /\ UNCHANGED <<start_spread, start_date, start_num_spread>>

C6_EntryRules == []C6_PositionState /\ [][C6_EntryStep]_vars

C6_Witness ==
    /\ pc = "loop"
    /\ start_pos = -1
    /\ Len(trade_date) = 1
    /\ SideAt(key_pair, trade_date[1][1]) = 1
    /\ start_date = 2

\* C7: every recorded trade's pnl is (exit - entry) * size for a Long and
\* (entry - exit) * size for a Short, with entry and exit the spreads at the
\* trade's entry and exit indices and size = (init_cap + all pnl realized
\* before the entry) / |entry|.
TradePnl(hedge, pa, pb, zs, td, pv, t) ==
    LET e == td[t][1]
        x == td[t][2]
        entry == Sub(At(pb, e), Mul(At(pa, e), hedge))
        exit == Sub(At(pb, x), Mul(At(pa, x), hedge))
        capital == Add(init_cap, SumSeq(SubSeq(pv, 1, t - 1)))
        size == Div(capital, Abs(entry))
    IN  IF Lt(At(zs, e), Neg(std))
        THEN Mul(Sub(exit, entry), size)
        ELSE Mul(Sub(entry, exit), size)

C7_PnlAndSizing ==
    /\ InPair => \A t \in 1..Len(pnl_val) :
          pnl_val[t] = TradePnl(hedge_ratio, indep_price, dep_price, zscore,
                                trade_date, pnl_val, t)
    /\ \A q \in 1..Len(coint_pairs) :
          LET p == coint_pairs[q][1]
          IN  p \in DOMAIN pnl_vals =>
                \A t \in 1..Len(pnl_vals[p]) :
                  pnl_vals[p][t] = TradePnl(coint_pairs[q][2], data.price[p[1]],
                                            data.price[p[2]], zscores[p],
                                            trade_dates[p], pnl_vals[p], t)

C7_Witness ==
    Done /\ \E p \in DOMAIN result.pnl_vals :
        /\ Len(result.pnl_vals[p]) = 2
        /\ SideAt(p, result.trade_dates[p][1][1]) = -1
        /\ SideAt(p, result.trade_dates[p][2][1]) = 1
        /\ result.cap_vals[p][2] # init_cap
        /\ result.pnl_vals[p][2] # Zero

\* C8: at an index that is not a forced-close step and whose z-score is NaN,
\* no position is opened or closed: position state, capital and ledger are
\* unchanged, and the step appends spread(i) and nothing else (nothing at
\* all when the pair has already halted).
C8_NaNStep ==
    (/\ pc = "loop" /\ i < N
     /\ IsNaN(At(zscore, i))
     /\ ~(i = N - 1 /\ start_pos # 0)) =>
        /\ UNCHANGED <<start_pos, start_cap, start_spread, start_num_spread,
                       start_date, trade_date, pnl_val, cap_val>>
        /\ all_spread' \in {all_spread, Append(all_spread, spread_at(i))}
        /\ (Gt(start_cap, Zero) /\ i' # i) =>
              all_spread' = Append(all_spread, spread_at(i))
        /\ Le(start_cap, Zero) => all_spread' = all_spread

C8_NaNFailsClosed == [][C8_NaNStep]_vars

C8_Witness ==
    /\ pc = "loop"
    /\ i = 3
    /\ N = 4
    /\ start_pos = 1
    /\ start_date = 1
    /\ IsNaN(At(zscore, 2))
    /\ Len(trade_date) = 0

AllNaN(p) == \A j \in 1..Len(zscores[p]) : IsNaN(zscores[p][j])

\* C9 (as stated): a pair whose z-scores are all NaN gets trade_dates = [],
\* cap_vals = [] and N entries in all_spreads.
C9_NoTradeAsStated ==
    Done => \A p \in DOMAIN result.trade_dates :
        AllNaN(p) =>
            /\ result.trade_dates[p] = <<>>
            /\ result.cap_vals[p] = <<>>
            /\ Len(result.all_spreads[p]) = N

\* C9 (amended): a pair whose z-scores are all NaN gets trade_dates = [],
\* pnl_vals = [], cap_vals = [init_cap] and N entries in all_spreads, the
\* spread of each date.
C9_NoTrade ==
    Done => \A q \in 1..Len(coint_pairs) :
        LET p == coint_pairs[q][1]
        IN  AllNaN(p) =>
            /\ result.trade_dates[p] = <<>>
            /\ result.pnl_vals[p] = <<>>
            /\ result.cap_vals[p] = <<init_cap>>
            /\ result.all_spreads[p] =
                  [j \in 1..N |-> Sub(data.price[p[2]][j],
                                      Mul(data.price[p[1]][j], coint_pairs[q][2]))]

C9_Witness ==
    Done /\ N = 3 /\ \E p \in DOMAIN result.trade_dates :
        AllNaN(p) /\ Len(result.all_spreads[p]) = 3

\* C10: len(all_spreads) is the number of indices processed, never more than
\* N, and equal to N when the capital never dropped to <= 0.
C10_SpreadCompleteness ==
    /\ InPair => /\ Len(all_spread) = i
                 /\ i <= N
                 /\ (pc = "pair_end" /\ \A j \in 1..Len(cap_val) : Gt(cap_val[j], Zero))
                       => Len(all_spread) = N
    /\ \A p \in DOMAIN all_spreads :
          /\ Len(all_spreads[p]) <= N
          /\ (\A j \in 1..Len(cap_vals[p]) : Gt(cap_vals[p][j], Zero))
                => Len(all_spreads[p]) = N
    /\ Done => \A p \in DOMAIN result.all_spreads :
          /\ Len(result.all_spreads[p]) <= N
          /\ (\A j \in 1..Len(result.cap_vals[p]) : Gt(result.cap_vals[p][j], Zero))
                => Len(result.all_spreads[p]) = N

C10_Witness ==
    Done /\ N = 4 /\ \E p \in DOMAIN result.all_spreads :
        /\ Len(result.all_spreads[p]) = 4
        /\ Len(result.cap_vals[p]) = 3
        /\ \A j \in 1..3 : Gt(result.cap_vals[p][j], Zero)

\* the pair p halted: a close before the last index left its capital <= 0
HaltedEarly(p) ==
    \E t \in 1..Len(result.trade_dates[p]) :
        /\ Le(result.cap_vals[p][t + 1], Zero)
        /\ result.trade_dates[p][t][2] < N - 1

\* C11 (as stated): all_spreads returned by run() has exactly N entries
\* whatever the trading activity.
C11_AllSpreadsAsStated ==
    Done => \A p \in DOMAIN result.all_spreads : Len(result.all_spreads[p]) = N

\* C11 (amended): all_spreads returned by run() has exactly N entries unless
\* a close at an index x < N-1 left the capital <= 0; it then has x+1 < N
\* entries and that close is the last trade.
C11_AllSpreads ==
    Done => \A p \in DOMAIN result.all_spreads :
        IF HaltedEarly(p)
        THEN LET x == result.trade_dates[p][Len(result.trade_dates[p])][2]
             IN  /\ Len(result.all_spreads[p]) = x + 1
                 /\ x + 1 < N
                 /\ Le(Last(result.cap_vals[p]), Zero)
        ELSE Len(result.all_spreads[p]) = N

C11_Witness ==
    Done /\ N = 4 /\ \E p \in DOMAIN result.all_spreads :
        /\ HaltedEarly(p)
        /\ Len(result.all_spreads[p]) = 3
        /\ Lt(Last(result.cap_vals[p]), Zero)

\* C18: a step of the loop that does not close a position leaves the running
\* capital and trade_dates, pnl_vals, cap_vals unchanged; a step that closes
\* one appends exactly one element to each of the three.
ClosesStep == start_pos # 0 /\ start_pos' = 0

C18_FrameStep ==
    pc = "loop" =>
        IF ClosesStep
        THEN /\ Len(trade_date') = Len(trade_date) + 1
             /\ Len(pnl_val') = Len(pnl_val) + 1
             /\ Len(cap_val') = Len(cap_val) + 1
             /\ SubSeq(trade_date', 1, Len(trade_date)) = trade_date
             /\ SubSeq(pnl_val', 1, Len(pnl_val)) = pnl_val
             /\ SubSeq(cap_val', 1, Len(cap_val)) = cap_val
        ELSE UNCHANGED <<start_cap, trade_date, pnl_val, cap_val>>

C18_CapitalFrame == [][C18_FrameStep]_vars

C18_Witness ==
    /\ pc = "loop"
    /\ i = 4
    /\ start_pos = 1
    /\ start_date = 3
    /\ Len(cap_val) = 2
    /\ start_cap # init_cap

\* C19 (as stated): when run() finishes a pair the position state is Flat.
C19_AllClosedAsStated == pc = "pair_end" => start_pos = 0

\* C19 (amended): when run() finishes a pair the position state is Flat
\* unless the position was opened on the final index N-1; every position
\* opened before the final index has its Trade in the ledger.
C19_AllClosed ==
    pc = "pair_end" =>
        \/ start_pos = 0
        \/ /\ N >= 1
           /\ i = N
           /\ start_date = At(dates, N - 1)
           /\ \/ Lt(At(zscore, N - 1), Neg(std))
              \/ Gt(At(zscore, N - 1), std)
           /\ \A t \in 1..Len(trade_date) : trade_date[t][2] < start_date

C19_Witness ==
    /\ pc = "pair_end"
    /\ N = 4
    /\ start_pos = -1
    /\ Len(trade_date) = 1

\* C20: in every pair's trade_dates each trade's entry index is strictly
\* before its exit index and each trade's entry index is strictly after the
\* exit index of the trade before it.
Ordered(td) ==
    /\ \A t \in 1..Len(td) : td[t][1] < td[t][2]
    /\ \A t \in 1..(Len(td) - 1) : td[t][2] < td[t + 1][1]

C20_TradesOrdered ==
    /\ InPair => /\ Ordered(trade_date)
                 /\ (start_pos # 0 /\ Len(trade_date) >= 1)
                       => Last(trade_date)[2] < start_date
    /\ \A p \in DOMAIN trade_dates : Ordered(trade_dates[p])
    /\ Done => \A p \in DOMAIN result.trade_dates : Ordered(result.trade_dates[p])

C20_Witness ==
    Done /\ \E p \in DOMAIN result.trade_dates :
        result.trade_dates[p] = << <<0, 1>>, <<2, 3>> >>

InMetrics == pc \in {"metrics", "m_done", "m_fault"}
MetricsDone == pc = "m_done"
MetricsFault == pc = "m_fault"

\* C12: for a pair whose ledger has zero trades compute_bt_metrics raises no
\* fault, produces no entry for the pair and goes on to the remaining pairs.
C12_ZeroTradesAsStated ==
    /\ ~(MetricsFault /\ Len(result.pnl_vals[key_pair]) = 0)
    /\ MetricsDone => \A q \in 1..Len(coint_pairs) :
          Len(result.pnl_vals[coint_pairs[q][1]]) = 0
              => coint_pairs[q][1] \notin DOMAIN metrics.pnl_pcts

\* the returns of pair p are fewer than two or all equal (zero deviation)
UndefinedSharpe(p) ==
    LET rets == pct_change(result.cap_vals[p])
    IN  \/ Len(rets) < 2
        \/ \A j \in 1..Len(rets) : rets[j] = rets[1]

\* C13: for a pair that has trades and passes the four threshold checks but
\* whose Sharpe ratio is undefined (fewer than 2 returns, or zero standard
\* deviation) compute_bt_metrics raises no fault and leaves the pair out.
C13_UndefinedSharpeAsStated ==
    /\ ~(/\ MetricsFault
         /\ Len(result.pnl_vals[key_pair]) > 0
         /\ UndefinedSharpe(key_pair))
    /\ MetricsDone => \A q \in 1..Len(coint_pairs) :
          UndefinedSharpe(coint_pairs[q][1])
              => coint_pairs[q][1] \notin DOMAIN metrics.sharpe_ratios

\* the inclusion predicate for the q-th pair, from its ledger
Qualifies(q) ==
    LET p == coint_pairs[q][1]
        cap == result.cap_vals[p]
        pv == result.pnl_vals[p]
        tt == Len(pv)
        wins == Cardinality({t \in 1..tt : Gt(pv[t], Zero)})
        rets == pct_change(cap)
        mu == mean(rets)
        var == variance(rets)
    IN  /\ tt > 0
        /\ ~Lt(Div(Sub(cap[Len(cap)], init_cap), init_cap), <<3, 10>>)
        /\ ~(tt <= Len(data.dates) \div 100)
        /\ ~Lt(Div(R(wins), R(tt)), <<3, 10>>)
        /\ ~Le(coint_pairs[q][2], Zero)
        /\ Len(rets) >= 2
        /\ Gt(var, Zero)
        /\ Gt(mu, Zero)
        /\ Gt(Mul(R(4), Mul(mu, mu)), var)

\* C14: a pair is in the output of compute_bt_metrics only if none of
\* pnl_pct < 0.3, total_trades <= floor(total_dates/100), win_pct < 0.3,
\* hedge_ratio <= 0 holds and its Sharpe ratio is > 0.5; a kept pair has an
\* entry in each of the six output maps.
C14_Inclusion ==
    /\ InMetrics =>
          /\ \A q \in 1..Len(coint_pairs) :
                coint_pairs[q][1] \in DOMAIN pnl_pcts => Qualifies(q)
          /\ \A d \in {DOMAIN win_pcts, DOMAIN tot_trades, DOMAIN max_wins,
                        DOMAIN max_losses, DOMAIN sharpe_ratios} : d = DOMAIN pnl_pcts
    /\ MetricsDone =>
          /\ \A q \in 1..Len(coint_pairs) :
                coint_pairs[q][1] \in DOMAIN metrics.pnl_pcts => Qualifies(q)
          /\ \A f \in {"win_pcts", "tot_trades", "max_wins", "max_losses",
                        "sharpe_ratios"} : DOMAIN metrics[f] = DOMAIN metrics.pnl_pcts

C14_Witness ==
    /\ MetricsDone
    /\ Len(coint_pairs) = 2
    /\ coint_pairs[1][2] = Zero
    /\ result.pnl_vals[coint_pairs[1][1]] = result.pnl_vals[coint_pairs[2][1]]
    /\ DOMAIN metrics.sharpe_ratios = {coint_pairs[2][1]}

\* the spread of the q-th pair is never 0, so its sizing cannot fault
NeverZeroSpread(q) ==
    LET p == coint_pairs[q][1]
    IN  \A j \in 1..Len(zscores[p]) :
          get_spread(data.price[p[1]][j], data.price[p[2]][j], coint_pairs[q][2]) # Zero

\* run() has delivered the complete result of pair p
Produced(p) ==
    /\ DOMAIN result # {}
    /\ p \in DOMAIN result.trade_dates
    /\ p \in DOMAIN result.pnl_vals
    /\ p \in DOMAIN result.cap_vals
    /\ p \in DOMAIN result.all_spreads

\* C15: when the sizing of one pair divides by a zero entry spread, run()
\* still produces the complete result of every other pair, before or after
\* the faulting pair in iteration order.
C15_FaultIsolationAsStated ==
    pc = "fault" =>
        \A q \in 1..Len(coint_pairs) :
            (q # k /\ NeverZeroSpread(q)) => Produced(coint_pairs[q][1])

\* C17: calling run() again on the same initialised model returns the same
\* result as the first call: nothing is carried over from the earlier run
\* or from one pair to the next.
C17_Determinism ==
    (pc = "done" /\ runs >= 2) => result = first_result

C17_Witness ==
    /\ pc = "done"
    /\ runs = 2
    /\ \A p \in DOMAIN result.pnl_vals :
         /\ Len(result.pnl_vals[p]) >= 1
         /\ result.pnl_vals[p][1] # Zero
    /\ Cardinality(DOMAIN first_result.pnl_vals) = 2

\* the series of some pair do not all have the length of dates, or the
\* initial capital is not positive
PreconditionViolated ==
    \/ ~Gt(init_cap, Zero)
    \/ \E q \in 1..Len(coint_pairs) :
         LET p == coint_pairs[q][1]
         IN  \/ Len(zscores[p]) # Len(data.dates)
             \/ Len(data.price[p[1]]) # Len(data.dates)
             \/ Len(data.price[p[2]]) # Len(data.dates)

\* C16: with series of unequal length or a non-positive init_cap, run()
\* fails before any simulation step: no index is processed, no spread or
\* trade is recorded and no result is returned.
C16_FailFastAsStated ==
    PreconditionViolated =>
        /\ pc # "done"
        /\ i = 0
        /\ all_spread = <<>>
        /\ trade_date = <<>>

====
